---- MODULE Spec2Model ----
(***************************************************************************)
(* cli2rest (src/app.py): POST /run-command creates a temporary directory, *)
(* hands execute_command_sync to a thread pool of MAX_WORKERS threads, and *)
(* streams the result as multipart sections through                       *)
(* CleanupStreamingResponse, which removes the directory afterwards.      *)
(*                                                                         *)
(* Optional values (Python None) are sequences of length at most one:     *)
(* <<>> is None and <<x>> is x.  A path is the sequence of its components, *)
(* an absolute path starting with the component "/".                      *)
(*                                                                         *)
(* Specifications: Spec (NumReqs concurrent requests, more than there are  *)
(* worker threads), SpecLive (the same with requests that carry a timeout, *)
(* under fairness of the service), SpecCross (NumCross requests, some      *)
(* naming paths outside their workspace), SpecHealth (requests and a       *)
(* client of /health) and SpecJob (one request, every combination of its   *)
(* fields).                                                                *)
(***************************************************************************)
EXTENDS Integers, Sequences, FiniteSets, TLC

\* ------------------------------------------------------------------ bounds
NumReqs == 3            \* requests that arrive in a run of Spec
NumCross == 2           \* requests that arrive in a run of SpecCross
MaxOut == 2             \* longest output_files list of a request of SpecJob

\* ---------------------------------------------------------------- constants
MAX_WORKERS == 2        \* multiprocessing.cpu_count() of the modelled host

Reqs == 1..NumReqs

None == <<>>
Some(x) == <<x>>

\* --------------------------------------------------------------- file system
\* os.path.join(a, p): an absolute p discards a.
join(a, p) == IF p # <<>> /\ p[1] = "/" THEN p ELSE a \o p

\* os.path.dirname(p)
dirname(p) == IF Len(p) <= 1 THEN p ELSE SubSeq(p, 1, Len(p) - 1)

\* The kernel's resolution of ".." components (no symbolic links).
RECURSIVE Resolve(_, _)
Resolve(stack, rest) ==
    IF rest = <<>> THEN stack
    ELSE IF Head(rest) = ".."
         THEN Resolve(IF Len(stack) > 1 THEN SubSeq(stack, 1, Len(stack) - 1) ELSE stack,
                      Tail(rest))
         ELSE Resolve(Append(stack, Head(rest)), Tail(rest))

realpath(p) == Resolve(<<>>, p)

IsPrefix(d, p) == Len(d) <= Len(p) /\ SubSeq(p, 1, Len(d)) = d

Prefixes(p) == {SubSeq(p, 1, n) : n \in 1..Len(p)}

\* The host before any request: /tmp is empty, /etc/hostname is a readable file.
TmpRoot == <<"/", "tmp">>
HostDirs == {<<"/">>, <<"/", "tmp">>, <<"/", "etc">>}
HostFile == <<"/", "etc", "hostname">>
HostBytes == <<4>>
HostFiles == (HostFile :> HostBytes)

\* tempfile.mkdtemp(): a fresh directory under /tmp, never reused.
WsNames == <<"w1", "w2", "w3", "w4", "w5">>
mkdtemp(r) == Append(TmpRoot, WsNames[r])

\* os.path.exists(p) and os.path.isfile(p) on the file system (fl, ds).
exists(fl, ds, p) == realpath(p) \in DOMAIN fl \/ realpath(p) \in ds
isfile(fl, p) == realpath(p) \in DOMAIN fl

\* os.makedirs(d, exist_ok=True): fails when a component of d is a file.
makedirs_ok(fl, d) == Prefixes(realpath(d)) \cap DOMAIN fl = {}
makedirs(ds, d) == ds \cup Prefixes(realpath(d))

\* open(p, "wb"): fails when p is a directory.
open_wb_ok(ds, p) == realpath(p) \notin ds

\* f.write(content) on a file opened "wb": the file holds exactly content.
write_file(fl, p, content) ==
    [q \in DOMAIN fl \cup {realpath(p)} |-> IF q = realpath(p) THEN content ELSE fl[q]]

\* shutil.rmtree(d, ignore_errors=True)
rmtree_files(fl, d) == [q \in {x \in DOMAIN fl : ~IsPrefix(d, x)} |-> fl[q]]
rmtree_dirs(ds, d) == {x \in ds : ~IsPrefix(d, x)}

\* ------------------------------------------------------------------ programs
\* What subprocess.run finds when it starts argv in the workspace: whether the
\* executable exists and may be executed, how long the process runs by itself,
\* the files (relative to its working directory) and the output it writes soon
\* after its start and just before its end, and how it ends (sig > 0: killed
\* by that signal, otherwise exit code).
Prog(found, executable, runtime, early, late, out_early, out_late, code, sig) ==
    [found |-> found, executable |-> executable, runtime |-> runtime,
     early |-> early, late |-> late, out_early |-> out_early,
     out_late |-> out_late, code |-> code, sig |-> sig]

\* Output is a sequence of bytes: a string stands for an ASCII character,
\* Lead and Cont for the two bytes of the UTF-8 code of one character, EAcute.
Lead == "0xC3"
Cont == "0xA9"
EAcute == "e-acute"

SIGKILL == 9            \* the signal of the kernel's out-of-memory killer
SIGTERM == 15
ProgBytes == <<5>>

Program(argv) ==
    CASE argv = <<"nosuch">>       -> Prog(FALSE, FALSE, 1, {}, {}, <<>>, <<>>, 0, 0)
      [] argv = <<"noexec">>       -> Prog(TRUE, FALSE, 1, {}, {}, <<>>, <<>>, 0, 0)
      [] argv = <<"true">>         -> Prog(TRUE, TRUE, 1, {}, {}, <<>>, <<>>, 0, 0)
      [] argv = <<"echo", "hello">> -> Prog(TRUE, TRUE, 1, {}, {}, <<"hello">>, <<>>, 0, 0)
      [] argv = <<"false">>        -> Prog(TRUE, TRUE, 1, {}, {}, <<>>, <<>>, 1, 0)
      [] argv = <<"touch", "o">>   -> Prog(TRUE, TRUE, 1, {<<"o">>}, {}, <<>>, <<>>, 0, 0)
      [] argv = <<"kill", "9">>    -> Prog(TRUE, TRUE, 1, {}, {}, <<>>, <<>>, 0, SIGKILL)
      [] argv = <<"kill", "15">>   -> Prog(TRUE, TRUE, 1, {}, {}, <<>>, <<>>, 0, SIGTERM)
      [] argv = <<"sleep", "3">>   -> Prog(TRUE, TRUE, 3, {}, {}, <<>>, <<>>, 0, 0)
      [] argv = <<"work">>         -> Prog(TRUE, TRUE, 3, {<<"o">>}, {<<"p">>}, <<"a">>, <<"b">>, 0, 0)
      [] argv = <<"print">>        -> Prog(TRUE, TRUE, 3, {}, {}, <<"a", Lead>>, <<Cont>>, 0, 0)
      [] argv = <<"binary">>       -> Prog(TRUE, TRUE, 1, {}, {}, <<Cont>>, <<>>, 0, 0)
      [] OTHER                     -> Prog(FALSE, FALSE, 1, {}, {}, <<>>, <<>>, 0, 0)

\* What the child of argv writes to its standard error, soon after its start
\* and just before its end.
ProgramErr(argv) ==
    CASE argv = <<"false">> -> [early |-> <<>>, late |-> <<"failed">>]
      [] argv = <<"work">>  -> [early |-> <<"e">>, late |-> <<"f">>]
      [] OTHER              -> [early |-> <<>>, late |-> <<>>]

\* The rusage of the child of argv and its descendants when it has been waited
\* for: peak resident set size and user CPU time, in units in which the
\* short-lived commands use no measurable CPU time.
Usage(argv) ==
    CASE argv = <<"touch", "o">> -> [maxrss |-> 2, utime |-> 0]
      [] argv = <<"true">>       -> [maxrss |-> 1, utime |-> 1]
      [] argv = <<"work">>       -> [maxrss |-> 3, utime |-> 2]
      [] OTHER                   -> [maxrss |-> 1, utime |-> 0]

\* ------------------------------------------------------------------ requests
\* An UploadFile: its filename and its spooled file (data, read position).
Upload(filename, data) == [filename |-> filename, data |-> data, pos |-> 0]

\* upload_file.file.read(): the bytes from the read position on.
read(u) == SubSeq(u.data, u.pos + 1, Len(u.data))

Request(arguments, input_files, output_files, timeout) ==
    [arguments |-> arguments, input_files |-> input_files,
     output_files |-> output_files, timeout |-> timeout]

NoRequest == Request(<<>>, None, <<>>, None)

PA == <<"a">>
PDB == <<"d", "b">>
PD == <<"d">>
PO == <<"o">>
PDotDot == <<"..", "x">>
PAbs == <<"/", "tmp", "y">>
POther == <<"..", "w2", "o">>
Bytes1 == <<7, 8>>
Bytes2 == <<9>>

\* The requests of Spec: a command that is not found, and one that writes
\* the file it is asked for.
Requests ==
    { Request(<<"nosuch">>, Some(<<>>), <<>>, None),
      Request(<<"touch", "o">>, Some(<<>>), <<PO>>, None) }

\* The requests of SpecCross: those of Spec, and one with an upload that
\* leaves the workspace which asks for the file o of the second request's
\* workspace.
CrossRequests ==
    Requests \cup
    { Request(<<"true">>, Some(<<Upload(PDotDot, Bytes1)>>), <<POther>>, None) }

\* The requests of SpecJob: every combination of these fields.
JobArguments ==
    { <<"nosuch">>, <<"noexec">>, <<"true">>, <<"echo", "hello">>, <<"false">>,
      <<"touch", "o">>, <<"kill", "9">>, <<"kill", "15">>, <<"sleep", "3">>, <<"work">>,
      <<"print">>, <<"binary">> }
JobInputs ==
    { None, Some(<<>>), Some(<<Upload(PA, Bytes1)>>), Some(<<Upload(PDB, Bytes2)>>),
      Some(<<Upload(PDotDot, Bytes1)>>), Some(<<Upload(PAbs, Bytes1)>>),
      Some(<<Upload(PDB, Bytes1), Upload(PD, Bytes2)>>),
      Some(<<Upload(<<>>, Bytes1), Upload(PA, Bytes2)>>) }
OutPaths == {PA, PDB, PO, PD, HostFile}
JobOutputs == UNION {[1..n -> OutPaths] : n \in 0..MaxOut}
JobTimeouts == {None, Some(2)}
AllRequests ==
    { Request(a, i, o, t) : a \in JobArguments, i \in JobInputs,
                            o \in JobOutputs, t \in JobTimeouts }

\* --------------------------------------------------------------------- state
VARIABLES
    pc,         \* where each request is in run_command / execute_command_sync
    request,    \* the form fields of each request
    proc,       \* how each request's child process ended
    result,     \* the dictionary execute_command_sync returned
    exc,        \* the exception the job or the handler raised
    http,       \* the status code of the response (0: none yet)
    sent,       \* the multipart sections the response has emitted
    stream_end, \* how streaming ended: "", "complete", "read_error", "disconnect"
    nspawn,     \* child processes started for each request
    nrmtree,    \* calls of shutil.rmtree on each request's directory
    files,      \* the regular files on disk: path -> bytes
    dirs,       \* the directories on disk
    queue,      \* executor._work_queue
    nthreads,   \* len(executor._threads)
    idle,       \* executor._idle_semaphore
    ru_maxrss,  \* getrusage(RUSAGE_CHILDREN).ru_maxrss of the server process
    ru_utime,   \* getrusage(RUSAGE_CHILDREN).ru_utime of the server process
    health_response \* the last answer of GET /health

reqvars == <<pc, request, proc, result, exc, http, sent, stream_end, nspawn, nrmtree>>
fsvars == <<files, dirs>>
poolvars == <<queue, nthreads, idle>>
ruvars == <<ru_maxrss, ru_utime>>
vars == <<reqvars, fsvars, poolvars, ruvars, health_response>>

NoProc == [kind |-> "none", code |-> 0, sig |-> 0]
NoExc == [type |-> "none", status_code |-> 0]
NoStats == [max_rss_kb |-> 0, cpu_user_seconds |-> 0]
NoResult ==
    [status |-> "", exit_code |-> None, missing_files |-> <<>>,
     execution_stats |-> NoStats, stdout |-> <<>>, stderr |-> <<>>,
     output_files |-> <<>>]
NoHealth == [status |-> "", workers |-> 0, active_threads |-> 0]

Init ==
    /\ pc = [r \in Reqs |-> "new"]
    /\ request = [r \in Reqs |-> NoRequest]
    /\ proc = [r \in Reqs |-> NoProc]
    /\ result = [r \in Reqs |-> NoResult]
    /\ exc = [r \in Reqs |-> NoExc]
    /\ http = [r \in Reqs |-> 0]
    /\ sent = [r \in Reqs |-> <<>>]
    /\ stream_end = [r \in Reqs |-> ""]
    /\ nspawn = [r \in Reqs |-> 0]
    /\ nrmtree = [r \in Reqs |-> 0]
    /\ files = HostFiles
    /\ dirs = HostDirs
    /\ queue = <<>>
    /\ nthreads = 0
    /\ idle = 0
    /\ ru_maxrss = 0
    /\ ru_utime = 0
    /\ health_response = NoHealth

\* The requests whose job occupies a worker thread.
InSlot_until_response_sent ==
    {r \in Reqs : pc[r] \in {"spawn", "running", "collect", "returned", "streaming"}}
InSlot == {r \in Reqs : pc[r] \in {"spawn", "running", "collect"}}
Busy == Cardinality(InSlot)

\* ------------------------------------------------------------------ executor
\* ThreadPoolExecutor(max_workers=MAX_WORKERS)._adjust_thread_count: a new
\* thread is started only when no thread is idle and fewer than max_workers exist.
may_start_thread_unbounded(n) == n >= 0
may_start_thread(n) == n < MAX_WORKERS

\* executor.submit, called by loop.run_in_executor.
submit(r) ==
    /\ queue' = Append(queue, r)
    /\ IF idle > 0
       THEN idle' = idle - 1 /\ nthreads' = nthreads
       ELSE /\ idle' = idle
            /\ nthreads' = IF may_start_thread(nthreads) THEN nthreads + 1 ELSE nthreads

\* A worker thread is done with its work item: it sets the future and
\* releases the idle semaphore.
release_slot_missing == idle' = idle /\ UNCHANGED <<queue, nthreads>>
release_slot == idle' = idle + 1 /\ UNCHANGED <<queue, nthreads>>

\* ------------------------------------------------------------- run_command
\* Lines 237-244: the upload is read, its file emptied and written again,
\* and the read position set back to the start.
spool_without_seek(u) ==
    IF u.filename = <<>> THEN u
    ELSE LET content == read(u) IN [u EXCEPT !.data = content, !.pos = Len(content)]
spool(u) ==
    IF u.filename = <<>> THEN u
    ELSE LET content == read(u) IN [u EXCEPT !.data = content, !.pos = 0]

\* POST /run-command up to the await of the executor (lines 233-261); a
\* request without input_files raises TypeError in the loop of line 237,
\* which line 273 turns into HTTPException(500).
Accept(r, q) ==
    /\ IF q.input_files = None
       THEN /\ request' = [request EXCEPT ![r] = q]
            /\ exc' = [exc EXCEPT ![r] = [type |-> "TypeError", status_code |-> 0]]
            /\ http' = [http EXCEPT ![r] = 500]
            /\ pc' = [pc EXCEPT ![r] = "error"]
            /\ UNCHANGED <<fsvars, poolvars>>
       ELSE /\ request' = [request EXCEPT ![r] =
                  [q EXCEPT !.input_files =
                      Some([i \in 1..Len(q.input_files[1]) |-> spool(q.input_files[1][i])])]]
            /\ dirs' = dirs \cup {mkdtemp(r)}
            /\ submit(r)
            /\ pc' = [pc EXCEPT ![r] = "queued"]
            /\ UNCHANGED <<exc, http, files>>
    /\ UNCHANGED <<proc, result, sent, stream_end, nspawn, nrmtree, ruvars, health_response>>

\* The r-th request arrives, its form fields being one of requests.
Submit(r, requests) ==
    /\ pc[r] = "new"
    /\ IF r = 1 THEN TRUE ELSE pc[r - 1] # "new"
    /\ \E q \in requests : Accept(r, q)

\* ---------------------------------------------------- execute_command_sync
\* Lines 110-129: the loop over input_files on the file system (fl, ds); ok is
\* FALSE when makedirs or open raised, the files written before remaining.
write_inputs_deferred(fl, ds, ups, temp_dir) == [files |-> fl, dirs |-> ds, ok |-> TRUE]
RECURSIVE write_inputs(_, _, _, _)
write_inputs(fl, ds, ups, temp_dir) ==
    IF ups = <<>> THEN [files |-> fl, dirs |-> ds, ok |-> TRUE]
    ELSE LET upload_file == Head(ups)
             file_path == join(temp_dir, upload_file.filename)
         IN  IF upload_file.filename = <<>>
             THEN write_inputs(fl, ds, Tail(ups), temp_dir)
             ELSE IF ~makedirs_ok(fl, dirname(file_path))
             THEN [files |-> fl, dirs |-> ds, ok |-> FALSE]
             ELSE IF ~open_wb_ok(makedirs(ds, dirname(file_path)), file_path)
             THEN [files |-> fl, dirs |-> makedirs(ds, dirname(file_path)), ok |-> FALSE]
             ELSE write_inputs(write_file(fl, file_path, read(upload_file)),
                               makedirs(ds, dirname(file_path)), Tail(ups), temp_dir)

\* A worker thread takes the request's work item from the queue and runs
\* execute_command_sync up to the end of the input loop (lines 108-129).
StartJob(r) ==
    /\ pc[r] = "queued"
    /\ queue # <<>> /\ Head(queue) = r
    /\ Busy < nthreads
    /\ LET w == write_inputs(files, dirs, request[r].input_files[1], mkdtemp(r))
       IN  /\ files' = w.files
           /\ dirs' = w.dirs
           /\ IF w.ok
              THEN /\ pc' = [pc EXCEPT ![r] = "spawn"]
                   /\ queue' = Tail(queue)
                   /\ UNCHANGED <<exc, nthreads, idle>>
              ELSE /\ pc' = [pc EXCEPT ![r] = "raised"]
                   /\ exc' = [exc EXCEPT ![r] = [type |-> "OSError", status_code |-> 0]]
                   /\ queue' = Tail(queue)
                   /\ idle' = idle + 1
                   /\ UNCHANGED nthreads
    /\ UNCHANGED <<request, proc, result, http, sent, stream_end, nspawn, nrmtree,
                   ruvars, health_response>>

\* subprocess.run starts the child (lines 144-152); FileNotFoundError becomes
\* HTTPException(400) (line 164), any other failure HTTPException(500) (line 166).
Spawn(r) ==
    /\ pc[r] = "spawn"
    /\ LET prog == Program(request[r].arguments)
       IN  IF ~prog.found
           THEN /\ exc' = [exc EXCEPT ![r] = [type |-> "HTTPException", status_code |-> 400]]
                /\ pc' = [pc EXCEPT ![r] = "raised"]
                /\ release_slot
                /\ UNCHANGED nspawn
           ELSE IF ~prog.executable
           THEN /\ exc' = [exc EXCEPT ![r] = [type |-> "HTTPException", status_code |-> 500]]
                /\ pc' = [pc EXCEPT ![r] = "raised"]
                /\ release_slot
                /\ UNCHANGED nspawn
           ELSE /\ pc' = [pc EXCEPT ![r] = "running"]
                /\ nspawn' = [nspawn EXCEPT ![r] = @ + 1]
                /\ UNCHANGED <<exc, poolvars>>
    /\ UNCHANGED <<request, proc, result, http, sent, stream_end, nrmtree, fsvars,
                   ruvars, health_response>>

\* subprocess.run's timeout: communicate raises TimeoutExpired when the child
\* has not ended after timeout seconds.
timed_out(prog, timeout) == timeout # None /\ prog.runtime > timeout[1]

\* The files the child has written in its working directory when it ends.
RECURSIVE write_all(_, _, _)
write_all(fl, cwd, paths) ==
    IF paths = {} THEN fl
    ELSE LET p == CHOOSE x \in paths : TRUE
         IN  write_all(write_file(fl, join(cwd, p), ProgBytes), cwd, paths \ {p})

\* The server process waits for a child that ended: the kernel adds the
\* child's usage to the RUSAGE_CHILDREN record of the server process, the
\* peak resident set size by maximum and the CPU time by sum.
wait_child(usage) ==
    /\ ru_maxrss' = (IF usage.maxrss > ru_maxrss THEN usage.maxrss ELSE ru_maxrss)
    /\ ru_utime' = ru_utime + usage.utime

\* The child ends by itself or is killed at the timeout (lines 145-152, 159).
Terminate(r) ==
    /\ pc[r] = "running"
    /\ LET prog == Program(request[r].arguments)
           late == timed_out(prog, request[r].timeout)
       IN  /\ files' = write_all(files, mkdtemp(r),
                                 IF late THEN prog.early ELSE prog.early \cup prog.late)
           /\ proc' = [proc EXCEPT ![r] =
                  IF late THEN [kind |-> "timeout", code |-> 0, sig |-> 0]
                  ELSE IF prog.sig > 0 THEN [kind |-> "signal", code |-> 0, sig |-> prog.sig]
                  ELSE [kind |-> "exit", code |-> prog.code, sig |-> 0]]
    /\ wait_child(Usage(request[r].arguments))
    /\ pc' = [pc EXCEPT ![r] = "collect"]
    /\ UNCHANGED <<request, result, exc, http, sent, stream_end, nspawn, nrmtree,
                   dirs, poolvars, health_response>>

\* Popen.returncode: the exit code, or minus the signal that killed the child.
returncode(p) == IF p.kind = "signal" THEN 0 - p.sig ELSE p.code

\* bytes.decode() and the decoding of text=True: the text of UTF-8 bytes, or
\* None for the UnicodeDecodeError.
RECURSIVE decode(_)
decode(bytes) ==
    IF bytes = <<>> THEN Some(<<>>)
    ELSE IF Head(bytes) = Cont THEN None
    ELSE IF Head(bytes) = Lead
    THEN IF Len(bytes) >= 2 /\ bytes[2] = Cont
         THEN LET rest == decode(SubSeq(bytes, 3, Len(bytes)))
              IN  IF rest = None THEN None ELSE Some(<<EAcute>> \o rest[1])
         ELSE None
    ELSE LET rest == decode(Tail(bytes))
         IN  IF rest = None THEN None ELSE Some(<<Head(bytes)>> \o rest[1])

\* The bytes read from a pipe of the child when it exited (all of them) or
\* was killed (those written until then).
captured(p, early, late) == IF p.kind = "exit" THEN early \o late ELSE early

\* Lines 153-162: status, exit_code, stdout and stderr after subprocess.run.
run_status(p) ==
    IF p.kind = "timeout" THEN "TIMEOUT"
    ELSE IF returncode(p) # 0 THEN "FAILED" ELSE "COMPLETED"
run_exit_code(p) == IF p.kind = "timeout" THEN None ELSE Some(returncode(p))
run_stdout(p, prog) == decode(captured(p, prog.out_early, prog.out_late))
run_stderr(p, err) == decode(captured(p, err.early, err.late))

\* Lines 170 and 191-197: the figures of resource.getrusage(RUSAGE_CHILDREN).
execution_stats == [max_rss_kb |-> ru_maxrss, cpu_user_seconds |-> ru_utime]

\* Lines 173-182: the loop over output_files.
RECURSIVE collect(_, _, _, _, _, _)
collect(fl, ds, temp_dir, output_files, output_file_data, missing_files) ==
    IF output_files = <<>>
    THEN [output_file_data |-> output_file_data, missing_files |-> missing_files]
    ELSE LET file_path == Head(output_files)
             full_path == join(temp_dir, file_path)
         IN  IF exists(fl, ds, full_path) /\ isfile(fl, full_path)
             THEN collect(fl, ds, temp_dir, Tail(output_files),
                          Append(output_file_data,
                                 [relative_path |-> file_path, absolute_path |-> full_path]),
                          missing_files)
             ELSE collect(fl, ds, temp_dir, Tail(output_files), output_file_data,
                          Append(missing_files, file_path))

\* Lines 184-185.
final_status(status, missing_files) ==
    IF missing_files # <<>> THEN "MISSING_OUTPUT_FILES" ELSE status

\* Lines 153-206: the result dictionary (status, exit_code, missing_files,
\* execution_stats, stdout, stderr, output_files).
make_result(r) ==
    LET c == collect(files, dirs, mkdtemp(r), request[r].output_files, <<>>, <<>>)
    IN  [status |-> final_status(run_status(proc[r]), c.missing_files),
         exit_code |-> run_exit_code(proc[r]),
         missing_files |-> c.missing_files,
         execution_stats |-> execution_stats,
         stdout |-> run_stdout(proc[r], Program(request[r].arguments))[1],
         stderr |-> run_stderr(proc[r], ProgramErr(request[r].arguments))[1],
         output_files |-> c.output_file_data]

\* The job decodes the captured output, classifies the outcome, collects the
\* output files and returns.  Output that is not UTF-8 raises
\* UnicodeDecodeError: in subprocess.run, where line 165 makes it
\* HTTPException(500), or, after a timeout, in the decode() of lines 161-162,
\* in the handler of TimeoutExpired, from where it leaves the job as it is.
Collect_retrying(r) ==
    /\ pc[r] = "collect"
    /\ IF run_status(proc[r]) # "COMPLETED" /\ nspawn[r] < 2
       THEN /\ pc' = [pc EXCEPT ![r] = "spawn"]
            /\ UNCHANGED <<result, exc, poolvars>>
       ELSE IF /\ run_stdout(proc[r], Program(request[r].arguments)) # None
               /\ run_stderr(proc[r], ProgramErr(request[r].arguments)) # None
       THEN /\ result' = [result EXCEPT ![r] = make_result(r)]
            /\ pc' = [pc EXCEPT ![r] = "returned"]
            /\ UNCHANGED exc
            /\ release_slot
       ELSE /\ exc' = [exc EXCEPT ![r] = [type |-> "HTTPException", status_code |-> 500]]
            /\ pc' = [pc EXCEPT ![r] = "raised"]
            /\ UNCHANGED result
            /\ release_slot
    /\ UNCHANGED <<request, proc, http, sent, stream_end, nspawn, nrmtree, fsvars,
                   ruvars, health_response>>
Collect(r) ==
    /\ pc[r] = "collect"
    /\ IF /\ run_stdout(proc[r], Program(request[r].arguments)) # None
          /\ run_stderr(proc[r], ProgramErr(request[r].arguments)) # None
       THEN /\ result' = [result EXCEPT ![r] = make_result(r)]
            /\ pc' = [pc EXCEPT ![r] = "returned"]
            /\ UNCHANGED exc
       ELSE /\ exc' = [exc EXCEPT ![r] =
                  IF proc[r].kind = "timeout"
                  THEN [type |-> "UnicodeDecodeError", status_code |-> 0]
                  ELSE [type |-> "HTTPException", status_code |-> 500]]
            /\ pc' = [pc EXCEPT ![r] = "raised"]
            /\ UNCHANGED result
    /\ release_slot
    /\ UNCHANGED <<request, proc, http, sent, stream_end, nspawn, nrmtree, fsvars,
                   ruvars, health_response>>

\* ------------------------------------------------------------ the response
\* Lines 264-265: the result without its output_files.
Metadata(res) ==
    [status |-> res.status, exit_code |-> res.exit_code,
     missing_files |-> res.missing_files, execution_stats |-> res.execution_stats,
     stdout |-> res.stdout, stderr |-> res.stderr]

NoMeta == Metadata(NoResult)

\* The sections create_multipart_generator yields: the JSON part (lines
\* 58-62), a file part (lines 68-75), the header of a file part whose file
\* could not be opened (lines 68-72), the closing boundary (line 78).
MetaSection(metadata) ==
    [kind |-> "metadata", filename |-> <<>>, body |-> <<>>, meta |-> metadata]
FileSection(rel_path, bytes) ==
    [kind |-> "file", filename |-> rel_path, body |-> bytes, meta |-> NoMeta]
FileHeader(rel_path) ==
    [kind |-> "file_header", filename |-> rel_path, body |-> <<>>, meta |-> NoMeta]
Closing == [kind |-> "closing", filename |-> <<>>, body |-> <<>>, meta |-> NoMeta]

\* What the generator does after it has yielded n sections: "metadata",
\* "file" (the n-th entry of output_files) or "closing".
generator_step_skips_last(n, output_files) ==
    IF n = 0 THEN "metadata"
    ELSE IF n < Len(output_files) THEN "file"
    ELSE "closing"
generator_step(n, output_files) ==
    IF n = 0 THEN "metadata"
    ELSE IF n <= Len(output_files) THEN "file"
    ELSE "closing"

\* The job returned: run_command builds the streaming response (lines 263-271).
Respond(r) ==
    /\ pc[r] = "returned"
    /\ http' = [http EXCEPT ![r] = 200]
    /\ pc' = [pc EXCEPT ![r] = "streaming"]
    /\ UNCHANGED <<request, proc, result, exc, sent, stream_end, nspawn, nrmtree,
                   fsvars, poolvars, ruvars, health_response>>

\* The job raised: line 273 catches every Exception, HTTPException included,
\* and raises HTTPException(500); nothing removes temp_dir.
Fail(r) ==
    /\ pc[r] = "raised"
    /\ http' = [http EXCEPT ![r] = 500]
    /\ pc' = [pc EXCEPT ![r] = "error"]
    /\ UNCHANGED <<request, proc, result, exc, sent, stream_end, nspawn, nrmtree,
                   fsvars, poolvars, ruvars, health_response>>

\* The finally of CleanupStreamingResponse.__call__ (lines 91-94).
cleanup(r) ==
    /\ files' = rmtree_files(files, mkdtemp(r))
    /\ dirs' = rmtree_dirs(dirs, mkdtemp(r))
    /\ nrmtree' = [nrmtree EXCEPT ![r] = @ + 1]
    /\ pc' = [pc EXCEPT ![r] = "done"]

\* StreamingResponse takes the next section from the generator; a file that
\* can no longer be opened (line 72) ends the stream with an exception, and
\* the finally removes the directory.
StreamNext(r) ==
    /\ pc[r] = "streaming"
    /\ stream_end[r] = ""
    /\ LET n == Len(sent[r])
           output_files == result[r].output_files
           step == generator_step(n, output_files)
       IN  \/ /\ step = "metadata"
              /\ sent' = [sent EXCEPT ![r] = Append(@, MetaSection(Metadata(result[r])))]
              /\ UNCHANGED <<pc, stream_end, nrmtree, fsvars>>
           \/ /\ step = "file"
              /\ isfile(files, output_files[n].absolute_path)
              /\ sent' = [sent EXCEPT ![r] =
                     Append(@, FileSection(output_files[n].relative_path,
                                           files[realpath(output_files[n].absolute_path)]))]
              /\ UNCHANGED <<pc, stream_end, nrmtree, fsvars>>
           \/ /\ step = "file"
              /\ ~isfile(files, output_files[n].absolute_path)
              /\ sent' = [sent EXCEPT ![r] = Append(@, FileHeader(output_files[n].relative_path))]
              /\ stream_end' = [stream_end EXCEPT ![r] = "read_error"]
              /\ cleanup(r)
           \/ /\ step = "closing"
              /\ sent' = [sent EXCEPT ![r] = Append(@, Closing)]
              /\ stream_end' = [stream_end EXCEPT ![r] = "complete"]
              /\ UNCHANGED <<pc, nrmtree, fsvars>>
    /\ UNCHANGED <<request, proc, result, exc, http, nspawn, poolvars, ruvars,
                   health_response>>

\* The generator is exhausted and the response sent: the finally removes the
\* directory (lines 88-94).
Finish(r) ==
    /\ pc[r] = "streaming"
    /\ stream_end[r] = "complete"
    /\ cleanup(r)
    /\ UNCHANGED <<request, proc, result, exc, http, sent, stream_end, nspawn, poolvars,
                   ruvars, health_response>>

\* The client disconnects while the response is streamed: the stream is
\* abandoned and the finally removes the directory (lines 88-94).
Disconnect_without_finally(r) ==
    /\ pc[r] = "streaming"
    /\ stream_end[r] = ""
    /\ stream_end' = [stream_end EXCEPT ![r] = "disconnect"]
    /\ pc' = [pc EXCEPT ![r] = "done"]
    /\ UNCHANGED <<request, proc, result, exc, http, sent, nspawn, nrmtree, fsvars, poolvars,
                   ruvars, health_response>>
Disconnect(r) ==
    /\ pc[r] = "streaming"
    /\ stream_end[r] = ""
    /\ stream_end' = [stream_end EXCEPT ![r] = "disconnect"]
    /\ cleanup(r)
    /\ UNCHANGED <<request, proc, result, exc, http, sent, nspawn, poolvars, ruvars,
                   health_response>>

\* ------------------------------------------------------------------- health
\* GET /health (lines 279-286): served on the event loop from MAX_WORKERS and
\* the executor's set of threads.
health ==
    [status |-> "healthy", workers |-> MAX_WORKERS, active_threads |-> nthreads]

Health ==
    /\ health_response' = health
    /\ UNCHANGED <<reqvars, fsvars, poolvars, ruvars>>

\* ------------------------------------------------------------ specifications
\* One step of request r, whose form fields are among requests.
Step(r, requests) ==
    \/ Submit(r, requests)
    \/ StartJob(r)
    \/ Spawn(r)
    \/ Terminate(r)
    \/ Collect(r)
    \/ Respond(r)
    \/ Fail(r)
    \/ StreamNext(r)
    \/ Finish(r)
    \/ Disconnect(r)

\* The service with NumReqs requests, more than it has worker threads,
\* arriving and proceeding in any interleaving.
Next == \E r \in Reqs : Step(r, Requests)

Spec == Init /\ [][Next]_vars

\* The worker threads and the event loop keep running, and every child
\* process ends or is killed at its timeout: a step of some job or of
\* run_command's handling of a finished job, when one is possible, is
\* eventually taken.  Nothing is assumed of the clients.
Service(r) ==
    \/ StartJob(r)
    \/ Spawn(r)
    \/ Terminate(r)
    \/ Collect(r)
    \/ Respond(r)
    \/ Fail(r)

\* The requests of SpecLive: a command that is not found, and one that runs
\* longer than its timeout allows.
LiveRequests ==
    { Request(<<"nosuch">>, Some(<<>>), <<>>, None),
      Request(<<"sleep", "3">>, Some(<<>>), <<>>, Some(2)) }

NextLive == \E r \in Reqs : Step(r, LiveRequests)

SpecLive == Init /\ [][NextLive]_vars /\ WF_vars(\E r \in Reqs : Service(r))

\* NumCross requests, some of which name paths outside their workspace.
NextCross == \E r \in 1..NumCross : Step(r, CrossRequests)

SpecCross == Init /\ [][NextCross]_vars

\* NumCross requests of Spec and a client of /health.
NextHealth ==
    \/ \E r \in 1..NumCross : Step(r, Requests)
    \/ Health

SpecHealth == Init /\ [][NextHealth]_vars

\* One request, with every combination of its fields.
NextJob == Step(1, AllRequests)

SpecJob == Init /\ [][NextJob]_vars

\* -------------------------------------------------------------------- claims
\* The request got a temporary directory (it was accepted by line 250).
Accepted(r) == pc[r] # "new" /\ request[r].input_files # None
\* The response of the request is over.
Responded(r) == pc[r] \in {"done", "error"}
\* execute_command_sync returned a result for the request.
HasResult(r) == pc[r] \in {"returned", "streaming", "done"}
WorkspaceExists(r) == mkdtemp(r) \in dirs
\* The request asks for a timeout shorter than its command runs.
TimeoutTooShort(r) == timed_out(Program(request[r].arguments), request[r].timeout)
\* The outcome of the child by section 4.2 of the specification.
ProcessOutcome(p) ==
    IF p.kind = "timeout" THEN "TIMEOUT"
    ELSE IF p.kind = "signal" THEN (IF p.sig = SIGKILL THEN "OOM" ELSE "SIGNALED")
    ELSE IF p.code # 0 THEN "FAILED"
    ELSE "COMPLETED"
\* The upload's path, joined to the workspace, lies outside the workspace.
Escapes(r, path) == ~IsPrefix(mkdtemp(r), realpath(join(mkdtemp(r), path)))
HasEscapingInput(r) ==
    /\ request[r].input_files # None
    /\ \E i \in 1..Len(request[r].input_files[1]) :
          /\ request[r].input_files[1][i].filename # <<>>
          /\ Escapes(r, request[r].input_files[1][i].filename)

\* C1: once the response of an accepted request is over, whatever its
\* outcome, the request's temporary directory no longer exists.
C1_WorkspaceGoneAfterResponse ==
    \A r \in Reqs : Accepted(r) /\ Responded(r) => ~WorkspaceExists(r)

\* C2: with a requested output file missing, the status is
\* MISSING_OUTPUT_FILES only if the process outcome was COMPLETED; otherwise
\* the status stays the process outcome.
C2_ProcessOutcomeTakesPrecedence ==
    \A r \in Reqs :
        HasResult(r) /\ result[r].missing_files # <<>> =>
            /\ result[r].status = "MISSING_OUTPUT_FILES" =>
                   ProcessOutcome(proc[r]) = "COMPLETED"
            /\ ProcessOutcome(proc[r]) # "COMPLETED" =>
                   result[r].status \in {"FAILED", "SIGNALED", "OOM", "TIMEOUT"}

\* C3: a request whose timeout is shorter than its command runs has, for any
\* list of requested output files, status TIMEOUT and no exit code.
C3_TimeoutReported ==
    \A r \in Reqs :
        HasResult(r) /\ TimeoutTooShort(r) =>
            result[r].status = "TIMEOUT" /\ result[r].exit_code = None

\* C4: a child killed by a signal is reported as SIGNALED, or OOM for the
\* out-of-memory-kill signal, with signal_num the signal's number, and never
\* as FAILED.
C4_SignalReported ==
    \A r \in Reqs :
        HasResult(r) /\ proc[r].kind = "signal" =>
            /\ result[r].status # "FAILED"
            /\ result[r].status = (IF proc[r].sig = SIGKILL THEN "OOM" ELSE "SIGNALED")
            /\ "signal_num" \in DOMAIN result[r]

\* C5: a request with an upload whose path leaves the workspace is rejected
\* with a client error before any process is spawned, and no file is ever
\* written outside the workspaces.
C5_EscapingUploadRejected ==
    /\ \A r \in Reqs :
          HasEscapingInput(r) =>
              /\ pc[r] \in {"new", "queued", "raised", "error"}
              /\ nspawn[r] = 0
              /\ pc[r] = "error" => http[r] \in 400..499
    /\ \A path \in DOMAIN files :
          \/ path \in DOMAIN HostFiles
          \/ \E r \in Reqs : IsPrefix(mkdtemp(r), path)

\* C6: when the command's executable is not found the request ends with a
\* client error (4xx), not a server error and not a result.
C6_CommandNotFoundIsClientError ==
    \A r \in Reqs :
        /\ pc[r] = "error"
        /\ exc[r].type = "HTTPException"
        /\ ~Program(request[r].arguments).found
        => http[r] \in 400..499 /\ result[r] = NoResult

\* C7: never more child processes (nor jobs in a worker thread) than
\* MAX_WORKERS, and a queued request starts its job only in a state where a
\* worker slot is free.
Running == {r \in Reqs : pc[r] = "running"}
C7_BoundedChildren ==
    /\ [](Cardinality(Running) <= MAX_WORKERS /\ Busy <= MAX_WORKERS)
    /\ [][\A r \in Reqs : pc[r] = "queued" /\ pc'[r] # "queued" => Busy < MAX_WORKERS]_vars

\* All slots run a child while a further request waits in the queue.
C7_Witness ==
    /\ Cardinality(Running) = MAX_WORKERS
    /\ \E r \in Reqs : pc[r] = "queued"

\* C8: a request that reached streaming has its directory removed exactly
\* once, and not before streaming ended (closing boundary sent, read error,
\* or disconnect): the directory exists as long as the response streams.
C8_CleanupOnceAfterStreaming ==
    \A r \in Reqs :
        /\ nrmtree[r] <= 1
        /\ pc[r] = "streaming" => nrmtree[r] = 0 /\ WorkspaceExists(r)
        /\ nrmtree[r] = 1 => pc[r] = "done"
        /\ pc[r] = "done" =>
              /\ nrmtree[r] = 1
              /\ ~WorkspaceExists(r)
              /\ stream_end[r] \in {"complete", "read_error", "disconnect"}
              /\ stream_end[r] = "complete" => sent[r][Len(sent[r])] = Closing

\* One response was abandoned by its client mid-stream and another ended on a
\* file that could not be read; both directories are gone.
C8_Witness ==
    \E a, b \in Reqs :
        /\ pc[a] = "done" /\ stream_end[a] = "disconnect" /\ sent[a] # <<>>
        /\ pc[b] = "done" /\ stream_end[b] = "read_error"

Range(s) == {s[i] : i \in 1..Len(s)}
\* The kinds and filenames of a sequence of sections.
Shape(sections) == [i \in 1..Len(sections) |-> <<sections[i].kind, sections[i].filename>>]
\* The requested paths that are not reported missing, in the order requested.
CollectedPaths(r) ==
    LET present(path) == path \notin Range(result[r].missing_files)
    IN  SelectSeq(request[r].output_files, present)
\* Metadata, one file section per collected path, closing boundary.
ExpectedShape(r) ==
    <<<<"metadata", <<>>>>>>
    \o [i \in 1..Len(CollectedPaths(r)) |-> <<"file", CollectedPaths(r)[i]>>]
    \o <<<<"closing", <<>>>>>>

\* C9: what a response has emitted is always a prefix of: the metadata
\* section, one file section per collected output file in the order
\* requested, the closing boundary; a response that ran to completion has
\* emitted all of it, and its first section carries the result's metadata.
C9_StreamLayout ==
    \A r \in Reqs :
        pc[r] \in {"streaming", "done"} /\ stream_end[r] # "read_error" =>
            /\ Len(sent[r]) <= Len(ExpectedShape(r))
            /\ Shape(sent[r]) = SubSeq(ExpectedShape(r), 1, Len(sent[r]))
            /\ sent[r] # <<>> => sent[r][1].meta = Metadata(result[r])
            /\ stream_end[r] = "complete" => Shape(sent[r]) = ExpectedShape(r)

\* A complete response with two file sections for the same requested path.
C9_Witness ==
    \E r \in Reqs :
        /\ stream_end[r] = "complete"
        /\ Len(sent[r]) = 4
        /\ sent[r][2].filename = sent[r][3].filename

\* The path, joined to the workspace, is a regular file inside the workspace.
InWorkspaceFile(r, path) ==
    /\ realpath(join(mkdtemp(r), path)) \in DOMAIN files
    /\ IsPrefix(mkdtemp(r), realpath(join(mkdtemp(r), path)))

\* What the child of the request writes to its pipes, in full and up to any
\* moment at which it may be killed, is UTF-8.
OutputDecodes(r) ==
    LET prog == Program(request[r].arguments)
        err == ProgramErr(request[r].arguments)
    IN  /\ decode(prog.out_early) # None /\ decode(prog.out_early \o prog.out_late) # None
        /\ decode(err.early) # None /\ decode(err.early \o err.late) # None

\* C10: when the job returns, the collected output files are the requested
\* paths that are regular files in the workspace, missing_files the other
\* requested paths, both in the order requested; and a request whose process
\* started and whose output can be decoded never ends with an error response.
C10_OutputPartition ==
    \A r \in Reqs :
        /\ pc[r] = "returned" =>
              LET inside(path) == InWorkspaceFile(r, path)
                  outside(path) == ~InWorkspaceFile(r, path)
              IN  /\ [i \in 1..Len(result[r].output_files) |->
                          result[r].output_files[i].relative_path]
                        = SelectSeq(request[r].output_files, inside)
                  /\ result[r].missing_files = SelectSeq(request[r].output_files, outside)
        /\ nspawn[r] > 0 /\ OutputDecodes(r) => pc[r] \notin {"raised", "error"}

\* The command of the request starts, is not cut short by the timeout and exits
\* with code 0.
ExitsZero(r) ==
    LET prog == Program(request[r].arguments)
    IN  prog.found /\ prog.executable /\ prog.sig = 0 /\ prog.code = 0
        /\ ~TimeoutTooShort(r)

\* C11: a request without input files and without requested output files
\* whose command exits with code 0 never ends in an error, and its result has
\* status COMPLETED and exit_code 0.
C11_NoInputsSucceeds ==
    \A r \in Reqs :
        /\ pc[r] # "new"
        /\ request[r].input_files \in {None, Some(<<>>)}
        /\ request[r].output_files = <<>>
        /\ ExitsZero(r)
        => /\ pc[r] \notin {"raised", "error"}
           /\ HasResult(r) =>
                  result[r].status = "COMPLETED" /\ result[r].exit_code = Some(0)

\* C12: every answer of /health reports MAX_WORKERS as the pool size and, when
\* no job waits in the queue for a thread, the number of jobs that occupy a
\* worker thread as the active count; answering changes neither the pool nor
\* any request.
C12_HealthReportsOccupiedSlots ==
    [][Health =>
          /\ health_response'.workers = MAX_WORKERS
          /\ queue = <<>> => health_response'.active_threads = Busy
          /\ UNCHANGED <<poolvars, pc>>]_vars

\* The uploads of the request that are written to the same file as path.
UploadsOf(r, path) ==
    IF request[r].input_files = None THEN {}
    ELSE {i \in 1..Len(request[r].input_files[1]) :
            /\ request[r].input_files[1][i].filename # <<>>
            /\ realpath(join(mkdtemp(r), request[r].input_files[1][i].filename))
                 = realpath(join(mkdtemp(r), path))}
\* The bytes the client uploaded for path (those of the last such upload).
UploadedBytes(r, path) ==
    LET last == CHOOSE i \in UploadsOf(r, path) : \A j \in UploadsOf(r, path) : j <= i
    IN  request[r].input_files[1][last].data
\* The files the command of the request writes.
WrittenByCommand(r) ==
    LET prog == Program(request[r].arguments)
    IN  {realpath(join(mkdtemp(r), q)) : q \in prog.early \cup prog.late}
\* path is relative, stays inside the workspace, was uploaded, and is not
\* modified by the command.
RoundTripPath(r, path) ==
    /\ path # <<>> /\ path[1] # "/"
    /\ ~Escapes(r, path)
    /\ UploadsOf(r, path) # {}
    /\ realpath(join(mkdtemp(r), path)) \notin WrittenByCommand(r)

\* C13: every file section sent for an uploaded path that the command does
\* not modify carries exactly the uploaded bytes, and a response that ran to
\* completion has such a section for every such path that was requested.
C13_RoundTrip ==
    \A r \in Reqs :
        /\ \A i \in 1..Len(sent[r]) :
              sent[r][i].kind = "file" /\ RoundTripPath(r, sent[r][i].filename) =>
                  sent[r][i].body = UploadedBytes(r, sent[r][i].filename)
        /\ stream_end[r] = "complete" =>
              \A k \in 1..Len(request[r].output_files) :
                  RoundTripPath(r, request[r].output_files[k]) =>
                      \E i \in 1..Len(sent[r]) :
                          /\ sent[r][i].kind = "file"
                          /\ sent[r][i].filename = request[r].output_files[k]
                          /\ sent[r][i].body = UploadedBytes(r, request[r].output_files[k])

\* A complete response returned the nested file d/b as it was uploaded.
C13_Witness ==
    \E r \in Reqs :
        /\ stream_end[r] = "complete"
        /\ \E i \in 1..Len(sent[r]) :
              /\ sent[r][i] = FileSection(PDB, Bytes2)
              /\ RoundTripPath(r, PDB)

\* C14: a request with uploads is always queued when it arrives, however many
\* slots are busy, and never answered at that point; every queued request
\* eventually leaves the queue for a worker thread, has its command started
\* (or found not to exist) and gets a response.
C14_WaitingRequestsServed ==
    /\ [][\A r \in Reqs :
            pc[r] = "new" /\ pc'[r] # "new" /\ request'[r].input_files # None =>
                pc'[r] = "queued" /\ http'[r] = 0 /\ r \in Range(queue')]_vars
    /\ \A r \in Reqs :
          (pc[r] = "queued") ~>
              (pc[r] # "queued" /\ (nspawn[r] = 1 \/ exc[r] # NoExc) /\ http[r] # 0)

\* The third request waits, unanswered, while the first two occupy both
\* worker threads.
C14_Witness ==
    /\ InSlot = {1, 2}
    /\ Busy = nthreads
    /\ queue = <<3>>
    /\ pc[3] = "queued" /\ http[3] = 0

\* Every upload of the request is on disk with the bytes the client sent.
InputsWritten(r) ==
    \A i \in 1..Len(request[r].input_files[1]) :
        LET filename == request[r].input_files[1][i].filename
        IN  filename # <<>> =>
                /\ isfile(files, join(mkdtemp(r), filename))
                /\ files[realpath(join(mkdtemp(r), filename))] = UploadedBytes(r, filename)

\* C15: the phases of a request follow one another: the uploads are on disk
\* when the child is spawned and while it runs; while the child runs nothing
\* is collected, streamed or removed; collection happens after the child has
\* ended and before anything is streamed; the directory is removed only after
\* streaming has ended; and the directory exists whenever the child runs or
\* the response streams.
C15_PhasesInOrder ==
    \A r \in Reqs :
        /\ pc[r] \in {"spawn", "running"} => InputsWritten(r)
        /\ pc[r] \in {"new", "queued", "spawn"} => nspawn[r] = 0
        /\ pc[r] \in {"spawn", "running"} =>
              proc[r] = NoProc /\ result[r] = NoResult /\ sent[r] = <<>> /\ nrmtree[r] = 0
        /\ pc[r] = "collect" =>
              proc[r] # NoProc /\ result[r] = NoResult /\ sent[r] = <<>> /\ nrmtree[r] = 0
        /\ result[r] # NoResult => proc[r] # NoProc /\ nspawn[r] = 1
        /\ sent[r] # <<>> => result[r] # NoResult /\ pc[r] \in {"streaming", "done"}
        /\ nrmtree[r] > 0 => stream_end[r] # "" /\ pc[r] = "done"
        /\ pc[r] \in {"running", "streaming"} => WorkspaceExists(r)

\* A request with an upload went through every phase: its command ran, a
\* file was collected and streamed to the end, and the directory was removed.
C15_Witness ==
    \E r \in Reqs :
        /\ pc[r] = "done" /\ stream_end[r] = "complete"
        /\ request[r].input_files = Some(<<Upload(PDB, Bytes2)>>)
        /\ nspawn[r] = 1 /\ nrmtree[r] = 1
        /\ Len(sent[r]) = 3 /\ sent[r][2].kind = "file"
        /\ ~WorkspaceExists(r)

\* The requests that have a directory and whose job has not yet returned or
\* raised.
PendingWithWorkspace ==
    {r \in Reqs : WorkspaceExists(r) /\ pc[r] \in {"queued", "spawn", "running", "collect"}}

\* C16: a request that has a directory and has not finished collection holds
\* a worker slot, so there are never more such directories than MAX_WORKERS.
C16_WorkspaceOnlyInSlot ==
    /\ \A r \in PendingWithWorkspace : r \in InSlot
    /\ Cardinality(PendingWithWorkspace) <= MAX_WORKERS

\* The requests whose execute_command_sync has been started by a worker
\* thread and has neither returned nor raised.
Executing == {r \in Reqs : pc[r] \in {"spawn", "running", "collect"}}
\* The requests that wait for a worker thread or whose job executes.
Unfinished == {r \in Reqs : pc[r] = "queued"} \cup Executing

CollectedRel(r) ==
    [i \in 1..Len(result[r].output_files) |-> result[r].output_files[i].relative_path]

\* C18: a request whose child was killed at the timeout never ends in an
\* error; its job collects over every requested path against the files on
\* disk (those the child wrote before it was killed included), keeps the
\* output captured up to the kill in stdout and stderr, and is answered with
\* a streamed result (status code 200) that, run to completion, carries one
\* section with the file's bytes for every collected file.
C18_TimeoutKeepsPartialOutput ==
    \A r \in Reqs :
        proc[r].kind = "timeout" =>
            /\ pc[r] \in {"collect", "returned", "streaming", "done"}
            /\ HasResult(r) =>
                  /\ Len(result[r].output_files) + Len(result[r].missing_files)
                        = Len(request[r].output_files)
                  /\ result[r].stdout = decode(Program(request[r].arguments).out_early)[1]
                  /\ result[r].stderr = decode(ProgramErr(request[r].arguments).early)[1]
            /\ pc[r] \in {"returned", "streaming"} =>
                  LET present(path) == isfile(files, join(mkdtemp(r), path))
                  IN  CollectedRel(r) = SelectSeq(request[r].output_files, present)
            /\ pc[r] \in {"streaming", "done"} => http[r] = 200
            /\ stream_end[r] = "complete" =>
                  /\ Len(sent[r]) = Len(result[r].output_files) + 2
                  /\ \A i \in 1..Len(result[r].output_files) :
                        /\ sent[r][i + 1].kind = "file"
                        /\ sent[r][i + 1].filename = CollectedRel(r)[i]
                        /\ sent[r][i + 1].body # <<>>

\* The figures of the request's own child process and its descendants.
OwnStats(r) ==
    [max_rss_kb |-> Usage(request[r].arguments).maxrss,
     cpu_user_seconds |-> Usage(request[r].arguments).utime]

\* C19: the execution_stats of every result are the figures of the request's
\* own child, whatever other requests were served before or meanwhile.
C19_StatsOfOwnChild ==
    \A r \in Reqs : HasResult(r) => result[r].execution_stats = OwnStats(r)

\* C20: no request ever has more than one child process or more than one
\* result: a child is started only for a request that has had none and has
\* no result, a result once produced is never replaced, and a request with a
\* result has had exactly one child, whether the child timed out, failed or
\* left requested files missing.
C20_AtMostOneExecution ==
    /\ [](\A r \in Reqs :
            /\ nspawn[r] <= 1
            /\ HasResult(r) => nspawn[r] = 1
            /\ result[r] # NoResult => HasResult(r))
    /\ [][\A r \in Reqs :
            /\ nspawn'[r] # nspawn[r] =>
                  nspawn[r] = 0 /\ nspawn'[r] = 1 /\ result[r] = NoResult
            /\ result[r] # NoResult => result'[r] = result[r]
            /\ HasResult(r) => HasResult(r)']_vars

\* A request whose child was killed at the timeout and left a requested file
\* missing was answered to the end with its one result after one spawn.
C20_Witness ==
    \E r \in Reqs :
        /\ pc[r] = "done" /\ stream_end[r] = "complete"
        /\ proc[r].kind = "timeout"
        /\ result[r].missing_files # <<>>
        /\ nspawn[r] = 1

====
